---- MODULE Spec2Model ----
(***************************************************************************)
(* A model of training_logger: the TrainingLogger (a pandas table plus a   *)
(* metadata dict, saved as data.csv and data.meta in a run directory) and  *)
(* the LogVisualizer that re-reads the run directory.                      *)
(*                                                                         *)
(* Python strings are sequences of one-character strings, so that          *)
(* concatenation, endswith, slicing, repr, replace and parsing are         *)
(* computed and not assumed.  A table is a record [index, cols, cell]: the *)
(* set of row labels, the set of column names and the cell of every        *)
(* (row, column) pair.  The order of rows and columns of the DataFrame is  *)
(* not part of the model.                                                  *)
(***************************************************************************)
EXTENDS Integers, Sequences, FiniteSets, TLC

(***************************************************************************)
(* Bounds of the model.                                                    *)
(***************************************************************************)
MaxRows == 2
MaxCols == 2
MaxSaveFreq == 2
MaxFixLen == 2
MaxSeries == 4
MaxRuns == 5
MaxWindow == 5

Max(a, b) == IF a >= b THEN a ELSE b
Min(a, b) == IF a <= b THEN a ELSE b

(***************************************************************************)
(* Python strings.                                                         *)
(***************************************************************************)
SQ == "'"
DQ == "\""
BS == "\\"

\* The Python value None where the code expects a str.
PyNone == <<"None">>

\* The iteration argument None (iteration numbers are naturals).
NoneIter == 0 - 1

\* str.endswith
EndsWith(s, t) ==
    /\ Len(t) <= Len(s)
    /\ SubSeq(s, Len(s) - Len(t) + 1, Len(s)) = t

\* s[:k] for a Python index k, negative k counting from the end
SliceTo(s, k) ==
    LET e == IF k < 0 THEN Max(Len(s) + k, 0) ELSE Min(k, Len(s))
    IN  SubSeq(s, 1, e)

\* str.lower on the characters the prompt answers are made of
LowerChar(c) ==
    CASE c = "Y" -> "y"
      [] c = "E" -> "e"
      [] c = "S" -> "s"
      [] c = "J" -> "j"
      [] c = "A" -> "a"
      [] c = "N" -> "n"
      [] OTHER -> c

Lower(s) == [i \in 1..Len(s) |-> LowerChar(s[i])]

\* str.replace(old, new) for one-character old and new
Replace(s, old, new) == [i \in 1..Len(s) |-> IF s[i] = old THEN new ELSE s[i]]

Contains(s, c) == \E i \in 1..Len(s) : s[i] = c

DigitChar(d) ==
    CASE d = 0 -> "0" [] d = 1 -> "1" [] d = 2 -> "2" [] d = 3 -> "3"
      [] d = 4 -> "4" [] d = 5 -> "5" [] d = 6 -> "6" [] d = 7 -> "7"
      [] d = 8 -> "8" [] d = 9 -> "9"

DigitChars == {DigitChar(d) : d \in 0..9}

DigitVal(c) == CHOOSE d \in 0..9 : DigitChar(d) = c

\* str(n) of a natural number
RECURSIVE Digits(_)
Digits(n) == IF n < 10 THEN <<DigitChar(n)>>
             ELSE Digits(n \div 10) \o <<DigitChar(n % 10)>>

IsNumeric(s) == Len(s) > 0 /\ \A i \in 1..Len(s) : s[i] \in DigitChars

RECURSIVE ParseInt(_)
ParseInt(s) == IF Len(s) = 1 THEN DigitVal(s[1])
               ELSE 10 * ParseInt(SubSeq(s, 1, Len(s) - 1)) + DigitVal(s[Len(s)])

\* repr() of a str, as str(dict) writes its keys and values: single quotes
\* unless the string holds a single quote and no double quote
ReprBody(s, q) ==
    LET Esc(c) == IF c = BS \/ c = q THEN <<BS, c>> ELSE <<c>>
        F[i \in 0..Len(s)] == IF i = 0 THEN <<>> ELSE F[i - 1] \o Esc(s[i])
    IN  F[Len(s)]

PyRepr(s) ==
    LET q == IF Contains(s, SQ) /\ ~Contains(s, DQ) THEN DQ ELSE SQ
    IN  <<q>> \o ReprBody(s, q) \o <<q>>

\* json.loads of one string literal: [ok, s].  The literal opens with a
\* double quote and ends at the first unescaped double quote, which must be
\* its last character; a backslash escapes a double quote, a backslash or a
\* slash (the escapes that occur here), anything else is malformed.
RECURSIVE JsonBody(_, _, _)
JsonBody(t, i, acc) ==
    IF i > Len(t) THEN [ok |-> FALSE, s |-> <<>>]
    ELSE IF t[i] = DQ THEN [ok |-> i = Len(t), s |-> acc]
    ELSE IF t[i] = BS THEN
        IF i + 1 <= Len(t) /\ t[i + 1] \in {DQ, BS, "/"}
        THEN JsonBody(t, i + 2, Append(acc, t[i + 1]))
        ELSE [ok |-> FALSE, s |-> <<>>]
    ELSE JsonBody(t, i + 1, Append(acc, t[i]))

JsonString(t) ==
    IF Len(t) >= 2 /\ t[1] = DQ THEN JsonBody(t, 2, <<>>)
    ELSE [ok |-> FALSE, s |-> <<>>]

(***************************************************************************)
(* Cell values and tables (the pandas DataFrame self.data).                *)
(***************************************************************************)
Null == [t |-> "null", n |-> 0, s |-> <<>>]
Num(n) == [t |-> "num", n |-> n, s |-> <<>>]
Str(s) == [t |-> "str", n |-> 0, s |-> s]

\* pd.DataFrame()
EmptyTable == [index |-> {}, cols |-> {}, cell |-> <<>>]

\* self.data[name] = None
AddColumn(tb, name) ==
    [index |-> tb.index,
     cols  |-> tb.cols \cup {name},
     cell  |-> [p \in tb.index \X (tb.cols \cup {name}) |->
                   IF p[2] = name THEN Null ELSE tb.cell[p]]]

\* self.data.loc[iteration, name] = value, on an existing column; a row label
\* that is not in the index yet enlarges the table with a row of nulls
SetCell(tb, iteration, name, value) ==
    [index |-> tb.index \cup {iteration},
     cols  |-> tb.cols,
     cell  |-> [p \in (tb.index \cup {iteration}) \X tb.cols |->
                   IF p = <<iteration, name>> THEN value
                   ELSE IF p[1] \in tb.index THEN tb.cell[p]
                   ELSE Null]]

\* len(self.data.index)
DefaultIteration(tb) == Cardinality(tb.index)

(***************************************************************************)
(* data.csv: DataFrame.to_csv and pd.read_csv(..., index_col=0).  The file *)
(* holds text: the row labels in decimal, the header, and one field per    *)
(* cell.  A null is written as the empty field.  read_csv infers the type  *)
(* of each column: a column whose non-empty fields are all numbers is read *)
(* as numbers, any other column as strings, and an empty field as null.    *)
(* An empty header field is read as the column name "Unnamed: <position>". *)
(***************************************************************************)
NoCsv == [exists |-> FALSE, rows |-> {}, header |-> {}, field |-> <<>>]

ToCsvField(v) ==
    CASE v.t = "null" -> <<>>
      [] v.t = "num"  -> Digits(v.n)
      [] v.t = "str"  -> v.s

to_csv(tb) ==
    [exists |-> TRUE,
     rows   |-> {Digits(i) : i \in tb.index},
     header |-> tb.cols,
     field  |-> [p \in {Digits(i) : i \in tb.index} \X tb.cols |->
                    ToCsvField(tb.cell[<<ParseInt(p[1]), p[2]>>])]]

Unnamed == <<"Unnamed: 1">>

ReadHeader(h) == IF h = <<>> THEN Unnamed ELSE h

ColumnIsNumeric(csv, h) ==
    \A r \in csv.rows : csv.field[<<r, h>>] = <<>> \/ IsNumeric(csv.field[<<r, h>>])

ReadField(f, numeric) ==
    IF f = <<>> THEN Null
    ELSE IF numeric THEN Num(ParseInt(f))
    ELSE Str(f)

read_csv(csv) ==
    LET index == {ParseInt(r) : r \in csv.rows}
        cols  == {ReadHeader(h) : h \in csv.header}
        Hdr(c) == CHOOSE h \in csv.header : ReadHeader(h) = c
    IN  [index |-> index,
         cols  |-> cols,
         cell  |-> [p \in index \X cols |->
                      ReadField(csv.field[<<Digits(p[1]), Hdr(p[2])>>],
                                ColumnIsNumeric(csv, Hdr(p[2])))]]

(***************************************************************************)
(* data.meta: str(self.metadata) on write; on load every single quote of   *)
(* the text becomes a double quote and the result is parsed as JSON.  The  *)
(* file is the set of the dict's items, each a key literal and a value     *)
(* literal.                                                                *)
(***************************************************************************)
DATATYPES == {"scalar", "img", "text"}

NoMeta == [exists |-> FALSE, items |-> {}]

\* f.write(str(self.metadata))
MetaDump(md) ==
    [exists |-> TRUE,
     items  |-> {[k |-> PyRepr(k), v |-> PyRepr(<<md[k]>>)] : k \in DOMAIN md}]

\* dict(json.loads(f.read().replace("'", '"'))): [ok, md]
MetaLoad(meta) ==
    LET Key(it) == JsonString(Replace(it.k, SQ, DQ))
        Val(it) == JsonString(Replace(it.v, SQ, DQ))
        ok   == \A it \in meta.items : Key(it).ok /\ Val(it).ok /\ Len(Val(it).s) = 1
        keys == {Key(it).s : it \in meta.items}
    IN  [ok |-> ok,
         md |-> IF ok
                THEN [k \in keys |->
                        Val(CHOOSE it \in meta.items : Key(it).s = k).s[1]]
                ELSE <<>>]

(***************************************************************************)
(* The run directory.                                                      *)
(***************************************************************************)
basename == <<"d">>

AbsentDir == [exists |-> FALSE, csv |-> NoCsv, meta |-> NoMeta, imgs |-> <<>>]

\* os.makedirs(basename) of a directory that is not there, and
\* shutil.rmtree(basename) followed by os.makedirs(basename)
EmptyDir == [exists |-> TRUE, csv |-> NoCsv, meta |-> NoMeta, imgs |-> <<>>]

\* os.path.join(self.basename, f"{name}-{iteration}.png")
ImgPath(name, iteration) ==
    basename \o <<"/">> \o name \o <<"-">> \o Digits(iteration) \o <<".png">>

(***************************************************************************)
(* TrainingLogger.__init__                                                 *)
(***************************************************************************)
YES == {<<"y">>, <<"y", "e", "s">>, <<"j">>, <<"j", "a">>}

\* Variant of Affirmative in which the empty answer (the default of the
\* prompt) counts as a yes.
Affirmative_default_yes(answer) == Lower(answer) \in YES \cup {<<>>}

\* the answer typed at a prompt is affirmative
Affirmative(answer) == Lower(answer) \in YES

\* Variant of TrainingLogger_init that does not check the types of the
\* loaded metadata.
TrainingLogger_init_untyped(d, overwrite, a1, a2) ==
    LET Fresh(dk)   == [out |-> "ok", disk |-> dk,
                        data |-> EmptyTable, metadata |-> <<>>]
        Abort(kind) == [out |-> kind, disk |-> d,
                        data |-> EmptyTable, metadata |-> <<>>]
        NotFound ==
            IF ~d.exists THEN Fresh(EmptyDir)
            ELSE IF overwrite \/ Affirmative(a2) THEN Fresh(EmptyDir)
            ELSE Abort("SystemExit")
        loaded == read_csv(d.csv)
        m == MetaLoad(d.meta)
    IN  IF ~d.csv.exists THEN NotFound
        ELSE IF ~overwrite /\ ~Affirmative(a1) THEN Abort("SystemExit")
        ELSE IF ~d.meta.exists THEN NotFound
        ELSE IF ~m.ok THEN Abort("JSONDecodeError")
        ELSE IF DOMAIN m.md # loaded.cols THEN Abort("AssertionError")
        ELSE [out |-> "ok", disk |-> d, data |-> loaded, metadata |-> m.md]

\* the constructor run on directory d: [out, disk, data, metadata], out being
\* "ok" or the exception that ends it.  a1 answers the prompt asked once
\* data.csv has been read, a2 the prompt asked when a file is missing and
\* the directory is there.
TrainingLogger_init(d, overwrite, a1, a2) ==
    LET Fresh(dk)   == [out |-> "ok", disk |-> dk,
                        data |-> EmptyTable, metadata |-> <<>>]
        Abort(kind) == [out |-> kind, disk |-> d,
                        data |-> EmptyTable, metadata |-> <<>>]
        NotFound ==
            IF ~d.exists THEN Fresh(EmptyDir)
            ELSE IF overwrite \/ Affirmative(a2) THEN Fresh(EmptyDir)
            ELSE Abort("SystemExit")
        loaded == read_csv(d.csv)
        m == MetaLoad(d.meta)
    IN  IF ~d.csv.exists THEN NotFound
        ELSE IF ~overwrite /\ ~Affirmative(a1) THEN Abort("SystemExit")
        ELSE IF ~d.meta.exists THEN NotFound
        ELSE IF ~m.ok THEN Abort("JSONDecodeError")
        ELSE IF DOMAIN m.md # loaded.cols THEN Abort("AssertionError")
        ELSE IF \E k \in DOMAIN m.md : m.md[k] \notin DATATYPES
             THEN Abort("AssertionError")
        ELSE [out |-> "ok", disk |-> d, data |-> loaded, metadata |-> m.md]

(***************************************************************************)
(* State.  disk is the run directory.  alive tells whether the training    *)
(* process holds a TrainingLogger; data .. postfix are its fields.  viz is *)
(* the LogVisualizer of the analysis process: whether it exists and the    *)
(* table and metadata of the logger it holds.                              *)
(*                                                                         *)
(* History: lastOp is the call that ended last, [op, out, arg]: its name,  *)
(* how it ended ("ok" or the exception raised) and its name argument (the  *)
(* column name given to add_scalar, add_text and add_image, the segment    *)
(* given to the prefix and postfix mutators, the exception caught by       *)
(* update_data).  sinceWrite counts the                                    *)
(* add_* calls that returned since the logger was constructed or since     *)
(* data.csv was last written by it.                                        *)
(*                                                                         *)
(* The analysis process also holds multi, the list self.visualizers of a   *)
(* MultiLogVisualizer; plt, the axes objects created by matplotlib with    *)
(* what was drawn on each; and ret, the last call of a visualizer method   *)
(* with its arguments, how it ended and the value it returned.             *)
(***************************************************************************)
VARIABLES disk, alive, data, metadata, meta_changed, save_freq, save_calls,
          prefix, postfix, viz, lastOp, sinceWrite, multi, plt, ret

loggerVars == <<alive, data, metadata, meta_changed, save_freq, save_calls,
                prefix, postfix, sinceWrite>>
vars == <<disk, alive, data, metadata, meta_changed, save_freq, save_calls,
          prefix, postfix, viz, lastOp, sinceWrite, multi, plt, ret>>

\* nothing returned yet by a call of the analysis process
NoRet == [call |-> "none", args |-> <<>>, out |-> "ok", value |-> <<>>]

NoViz == [alive |-> FALSE, data |-> EmptyTable, metadata |-> <<>>]

Op(op, out, arg) == [op |-> op, out |-> out, arg |-> arg]

Init ==
    /\ disk = AbsentDir
    /\ alive = FALSE
    /\ data = EmptyTable
    /\ metadata = <<>>
    /\ meta_changed = FALSE
    /\ save_freq = 1
    /\ save_calls = 0
    /\ prefix = <<>>
    /\ postfix = <<>>
    /\ viz = NoViz
    /\ lastOp = Op("none", "ok", <<>>)
    /\ sinceWrite = 0
    /\ multi = <<>>
    /\ plt = <<>>
    /\ ret = NoRet

\* the table stays within the bounds of the model
InBounds(tb) ==
    /\ Cardinality(tb.cols) <= MaxCols
    /\ Cardinality(tb.index) <= MaxRows

(***************************************************************************)
(* Construction of the TrainingLogger by the training process.  An         *)
(* exception or sys.exit(-1) ends the process: no logger is left.          *)
(***************************************************************************)
Construct(overwrite, a1, a2, freq) ==
    \E r \in {TrainingLogger_init(disk, overwrite, a1, a2)} :
        /\ disk' = r.disk
        /\ alive' = (r.out = "ok")
        /\ data' = r.data
        /\ metadata' = r.metadata
        /\ meta_changed' = FALSE
        /\ save_freq' = IF r.out = "ok" THEN freq ELSE 1
        /\ save_calls' = 0
        /\ prefix' = <<>>
        /\ postfix' = <<>>
        /\ lastOp' = Op("init", r.out, <<>>)
        /\ sinceWrite' = 0
        /\ UNCHANGED <<viz, multi, plt, ret>>

(***************************************************************************)
(* save and flush                                                          *)
(***************************************************************************)
\* Variant of save with a strict threshold test (save_calls > save_freq).
save_strict(st, calls, d, freq, force) ==
    IF force \/ calls + 1 > freq
    THEN [disk |-> [d EXCEPT !.csv = to_csv(st.data),
                             !.meta = IF st.meta_changed
                                      THEN MetaDump(st.metadata) ELSE @],
          meta_changed |-> FALSE,
          save_calls |-> 0,
          wrote |-> TRUE]
    ELSE [disk |-> d, meta_changed |-> st.meta_changed,
          save_calls |-> calls + 1, wrote |-> FALSE]

\* save(force) on the fields st = [data, metadata, meta_changed], the
\* counter calls and directory d: [disk, meta_changed, save_calls, wrote],
\* wrote telling whether data.csv was written
save(st, calls, d, freq, force) ==
    IF force \/ calls + 1 >= freq
    THEN [disk |-> [d EXCEPT !.csv = to_csv(st.data),
                             !.meta = IF st.meta_changed
                                      THEN MetaDump(st.metadata) ELSE @],
          meta_changed |-> FALSE,
          save_calls |-> 0,
          wrote |-> TRUE]
    ELSE [disk |-> d, meta_changed |-> st.meta_changed,
          save_calls |-> calls + 1, wrote |-> FALSE]

State == [data |-> data, metadata |-> metadata, meta_changed |-> meta_changed]

flush ==
    \E sv \in {save(State, save_calls, disk, save_freq, TRUE)} :
        /\ alive
        /\ disk' = sv.disk
        /\ meta_changed' = sv.meta_changed
        /\ save_calls' = sv.save_calls
        /\ lastOp' = Op("flush", "ok", <<>>)
        /\ sinceWrite' = 0
        /\ UNCHANGED <<alive, data, metadata, save_freq, prefix, postfix, viz,
                 multi, plt, ret>>

(***************************************************************************)
(* Names, prefix and postfix                                               *)
(***************************************************************************)
\* self.prefix + name + self.postfix: [ok, name]; concatenating None raises
_get_name(pre, name, post) ==
    IF pre = PyNone \/ post = PyNone
    THEN [ok |-> FALSE, name |-> <<>>]
    ELSE [ok |-> TRUE, name |-> pre \o name \o post]

\* s + name, the new value of prefix or postfix: [out, s]
Push(s, name) ==
    IF s = PyNone THEN [out |-> "TypeError", s |-> s]
    ELSE [out |-> "ok", s |-> s \o name]

add_to_prefix(name) ==
    \E r \in {Push(prefix, name)} :
        /\ alive
        /\ Len(r.s) <= MaxFixLen
        /\ prefix' = r.s
        /\ lastOp' = Op("add_to_prefix", r.out, name)
        /\ UNCHANGED <<disk, alive, data, metadata, meta_changed, save_freq,
                       save_calls, postfix, viz, sinceWrite,
                       multi, plt, ret>>

\* Variant of PopPrefix that truncates the prefix without looking at its end.
PopPrefix_unchecked(s, name) ==
    IF s = PyNone THEN [out |-> "AttributeError", s |-> s]
    ELSE [out |-> "ok", s |-> SliceTo(s, 0 - Len(name))]

\* the new value of self.prefix after remove_from_prefix(name): [out, s]
PopPrefix(s, name) ==
    IF s = PyNone THEN [out |-> "AttributeError", s |-> s]
    ELSE IF ~EndsWith(s, name) THEN [out |-> "ValueError", s |-> s]
    ELSE [out |-> "ok", s |-> SliceTo(s, 0 - Len(name))]

remove_from_prefix(name) ==
    \E r \in {PopPrefix(prefix, name)} :
        /\ alive
        /\ prefix' = r.s
        /\ lastOp' = Op("remove_from_prefix", r.out, name)
        /\ UNCHANGED <<disk, alive, data, metadata, meta_changed, save_freq,
                       save_calls, postfix, viz, sinceWrite,
                       multi, plt, ret>>

add_to_postfix(name) ==
    \E r \in {Push(postfix, name)} :
        /\ alive
        /\ r.out = "ok" => Len(r.s) <= MaxFixLen
        /\ postfix' = r.s
        /\ lastOp' = Op("add_to_postfix", r.out, name)
        /\ UNCHANGED <<disk, alive, data, metadata, meta_changed, save_freq,
                       save_calls, prefix, viz, sinceWrite,
                       multi, plt, ret>>

\* the new value of self.postfix after remove_from_postfix(name): [out, s];
\* the slice is assigned and then None is
PopPostfix(s, name) ==
    IF s = PyNone THEN [out |-> "AttributeError", s |-> s]
    ELSE IF ~EndsWith(s, name) THEN [out |-> "ValueError", s |-> s]
    ELSE [out |-> "ok", s |-> PyNone]

remove_from_postfix(name) ==
    \E r \in {PopPostfix(postfix, name)} :
        /\ alive
        /\ postfix' = r.s
        /\ lastOp' = Op("remove_from_postfix", r.out, name)
        /\ UNCHANGED <<disk, alive, data, metadata, meta_changed, save_freq,
                       save_calls, prefix, viz, sinceWrite,
                       multi, plt, ret>>

(***************************************************************************)
(* Insertion.  An insertion works on the fields st = [data, metadata,      *)
(* meta_changed] and yields [out, data, metadata, meta_changed]: how it    *)
(* ended and the fields as it left them.                                   *)
(***************************************************************************)
\* Variant of Put that records an image column as "image".
Put_image(md, name, type) ==
    [k \in DOMAIN md \cup {name} |->
        IF k = name THEN (IF type = "img" THEN "image" ELSE type) ELSE md[k]]

\* self.metadata[name] = type
Put(md, name, type) ==
    [k \in DOMAIN md \cup {name} |-> IF k = name THEN type ELSE md[k]]

\* if name not in self.data.columns: new column, its type, metadata dirty
NewColumn(st, name, type) ==
    IF name \notin st.data.cols
    THEN [data |-> AddColumn(st.data, name),
          metadata |-> Put(st.metadata, name, type),
          meta_changed |-> TRUE]
    ELSE st

Ended(out, st) ==
    [out |-> out, data |-> st.data, metadata |-> st.metadata,
     meta_changed |-> st.meta_changed]

\* iteration = len(self.data.index) if iteration is None
Row(tb, iteration) ==
    IF iteration = NoneIter THEN DefaultIteration(tb) ELSE iteration

insert_scalar(st, pre, post, name, value, iteration) ==
    LET rn == _get_name(pre, name, post)
        s1 == NewColumn(st, rn.name, "scalar")
    IN  IF ~rn.ok THEN Ended("TypeError", st)
        ELSE IF s1.metadata[rn.name] # "scalar" THEN Ended("AssertionError", s1)
        ELSE Ended("ok", [s1 EXCEPT !.data =
                             SetCell(@, Row(s1.data, iteration), rn.name, value)])

insert_text(st, pre, post, name, value, iteration) ==
    LET rn == _get_name(pre, name, post)
        s1 == NewColumn(st, rn.name, "text")
    IN  IF ~rn.ok THEN Ended("TypeError", st)
        ELSE IF s1.metadata[rn.name] # "text" THEN Ended("AssertionError", s1)
        ELSE Ended("ok", [s1 EXCEPT !.data =
                             SetCell(@, Row(s1.data, iteration), rn.name, value)])

\* The end of an add_* call whose insertion r left the directory as dk:
\* self.save() if the insertion returned, nothing more if it raised.
Finish(op, arg, r, dk) ==
    \E sv \in {save(r, save_calls, dk, save_freq, FALSE)} :
        /\ InBounds(r.data)
        /\ data' = r.data
        /\ metadata' = r.metadata
        /\ lastOp' = Op(op, r.out, arg)
        /\ IF r.out = "ok"
           THEN /\ disk' = sv.disk
                /\ meta_changed' = sv.meta_changed
                /\ save_calls' = sv.save_calls
                /\ sinceWrite' = IF sv.wrote THEN 0 ELSE sinceWrite + 1
           ELSE /\ disk' = dk
                /\ meta_changed' = r.meta_changed
                /\ UNCHANGED <<save_calls, sinceWrite>>

add_scalar(name, value, iteration) ==
    /\ alive
    /\ \E r \in {insert_scalar(State, prefix, postfix, name, value, iteration)} :
          Finish("add_scalar", name, r, disk)
    /\ UNCHANGED <<alive, save_freq, prefix, postfix, viz,
                 multi, plt, ret>>

add_text(name, value, iteration) ==
    /\ alive
    /\ \E r \in {insert_text(State, prefix, postfix, name, value, iteration)} :
          Finish("add_text", name, r, disk)
    /\ UNCHANGED <<alive, save_freq, prefix, postfix, viz,
                 multi, plt, ret>>

(***************************************************************************)
(* add_image.  An image is [dtype, px]; a float32 image is scaled to       *)
(* uint8.  The image files of the directory map their path to the pixels   *)
(* written.                                                                *)
(***************************************************************************)
ImgValues == {[dtype |-> "uint8", px |-> 0], [dtype |-> "float32", px |-> 0]}

\* (value * 255).astype("uint8") for a float32 image
Normalize(value) ==
    IF value.dtype = "float32"
    THEN [dtype |-> "uint8", px |-> (value.px * 255) % 256]
    ELSE value

\* Variant of WriteImg that writes no file.
WriteImg_none(d, path, value) == d

\* i.save(img_path)
WriteImg(d, path, value) ==
    [d EXCEPT !.imgs = [q \in DOMAIN @ \cup {path} |->
                           IF q = path THEN value.px ELSE @[q]]]

\* Variant of insert_image that writes the image file before it checks the
\* type of the column.
insert_image_early(st, d, pre, post, name, value, iteration) ==
    LET rn == _get_name(pre, name, post)
        s1 == NewColumn(st, rn.name, "img")
        it == Row(s1.data, iteration)
        img_path == ImgPath(rn.name, it)
        written == WriteImg(d, img_path, Normalize(value))
        With(r, dk) == [out |-> r.out, data |-> r.data, metadata |-> r.metadata,
                        meta_changed |-> r.meta_changed, disk |-> dk]
    IN  IF ~rn.ok THEN With(Ended("TypeError", st), d)
        ELSE IF s1.metadata[rn.name] # "img"
             THEN With(Ended("AssertionError", s1), written)
        ELSE With(Ended("ok", [s1 EXCEPT !.data =
                                  SetCell(@, it, rn.name, Str(img_path))]),
                  written)

\* add_image up to its call of save(): [out, data, metadata, meta_changed, disk]
insert_image(st, d, pre, post, name, value, iteration) ==
    LET rn == _get_name(pre, name, post)
        s1 == NewColumn(st, rn.name, "img")
        it == Row(s1.data, iteration)
        img_path == ImgPath(rn.name, it)
        With(r, dk) == [out |-> r.out, data |-> r.data, metadata |-> r.metadata,
                        meta_changed |-> r.meta_changed, disk |-> dk]
    IN  IF ~rn.ok THEN With(Ended("TypeError", st), d)
        ELSE IF s1.metadata[rn.name] # "img" THEN With(Ended("AssertionError", s1), d)
        ELSE With(Ended("ok", [s1 EXCEPT !.data =
                                  SetCell(@, it, rn.name, Str(img_path))]),
                  WriteImg(d, img_path, Normalize(value)))

add_image(name, value, iteration) ==
    /\ alive
    /\ \E r \in {insert_image(State, disk, prefix, postfix, name, value, iteration)} :
          Finish("add_image", name, r, r.disk)
    /\ UNCHANGED <<alive, save_freq, prefix, postfix, viz,
                 multi, plt, ret>>

(***************************************************************************)
(* add_scalars(pre, post, iteration, **keyvals): keyvals is the sequence   *)
(* of the (name, value) pairs in the order of the call.                    *)
(***************************************************************************)
\* for name, val in keyvals.items(): self.__insert_scalar(name, val, iteration)
RECURSIVE InsertAll(_, _, _, _, _)
InsertAll(st, pre, post, keyvals, iteration) ==
    IF keyvals = <<>> THEN Ended("ok", st)
    ELSE LET r == insert_scalar(st, pre, post, keyvals[1][1], keyvals[1][2], iteration)
         IN  IF r.out # "ok" THEN r
             ELSE InsertAll(r, pre, post, Tail(keyvals), iteration)

\* Variant of scalars in which every key takes its own default iteration.
scalars_per_key(st, pre0, post0, pre, post, iteration, keyvals) ==
    LET p1 == Push(pre0, pre)
        p2 == Push(post0, post)
        r  == InsertAll(st, p1.s, p2.s, keyvals, iteration)
        With(e, a, b) == [out |-> e.out, data |-> e.data, metadata |-> e.metadata,
                          meta_changed |-> e.meta_changed,
                          prefix |-> a, postfix |-> b]
    IN  IF p1.out # "ok" THEN With(Ended(p1.out, st), pre0, post0)
        ELSE IF p2.out # "ok" THEN With(Ended(p2.out, st), p1.s, post0)
        ELSE IF r.out # "ok" THEN With(r, p1.s, p2.s)
        ELSE With(r, pre0, post0)

\* add_scalars on the fields st with prefix pre0 and postfix post0:
\* [out, data, metadata, meta_changed, prefix, postfix].  The prefix and
\* the postfix are extended, the default iteration is taken once, the pairs
\* are inserted in order; prefix and postfix are set back after save().
scalars(st, pre0, post0, pre, post, iteration, keyvals) ==
    LET p1 == Push(pre0, pre)
        p2 == Push(post0, post)
        r  == InsertAll(st, p1.s, p2.s, keyvals, Row(st.data, iteration))
        With(e, a, b) == [out |-> e.out, data |-> e.data, metadata |-> e.metadata,
                          meta_changed |-> e.meta_changed,
                          prefix |-> a, postfix |-> b]
    IN  IF p1.out # "ok" THEN With(Ended(p1.out, st), pre0, post0)
        ELSE IF p2.out # "ok" THEN With(Ended(p2.out, st), p1.s, post0)
        ELSE IF r.out # "ok" THEN With(r, p1.s, p2.s)
        ELSE With(r, pre0, post0)

add_scalars(pre, post, iteration, keyvals) ==
    /\ alive
    /\ \E r \in {scalars(State, prefix, postfix, pre, post, iteration, keyvals)} :
          /\ r.prefix # PyNone => Len(r.prefix) <= MaxFixLen
          /\ r.postfix # PyNone => Len(r.postfix) <= MaxFixLen
          /\ prefix' = r.prefix
          /\ postfix' = r.postfix
          /\ Finish("add_scalars", <<>>, r, disk)
    /\ UNCHANGED <<alive, save_freq, viz, multi, plt, ret>>

(***************************************************************************)
(* LogVisualizer: __init__ and update_data construct a TrainingLogger on   *)
(* the run directory with overwrite=True.                                  *)
(***************************************************************************)
\* self.logger = TrainingLogger(path, True): [out, disk, viz]
LogVisualizer_init(d) ==
    LET r == TrainingLogger_init(d, TRUE, <<>>, <<>>)
    IN  [out |-> r.out, disk |-> r.disk,
         viz |-> IF r.out = "ok"
                 THEN [alive |-> TRUE, data |-> r.data, metadata |-> r.metadata]
                 ELSE NoViz]

VizInit ==
    \E r \in {LogVisualizer_init(disk)} :
        /\ disk' = r.disk
        /\ viz' = r.viz
        /\ lastOp' = Op("viz_init", r.out, <<>>)
        /\ UNCHANGED <<loggerVars, multi, plt, ret>>

\* the outcomes of the constructor that "except Exception" catches
\* (SystemExit is no Exception)
Exceptions == {"JSONDecodeError", "AssertionError"}

\* Variant of update_data that drops the logger held when the constructor
\* raises.
update_data_reset(v, d) ==
    LET r == TrainingLogger_init(d, TRUE, <<>>, <<>>)
    IN  [out |-> IF r.out \in Exceptions THEN "ok" ELSE r.out,
         caught |-> IF r.out \in Exceptions THEN <<r.out>> ELSE <<>>,
         disk |-> r.disk,
         viz |-> IF r.out = "ok"
                 THEN [alive |-> TRUE, data |-> r.data, metadata |-> r.metadata]
                 ELSE NoViz]

\* update_data on visualizer v: [out, caught, disk, viz]; an Exception of
\* the constructor is caught and printed, the call returns and the logger
\* held is kept
update_data(v, d) ==
    LET r == TrainingLogger_init(d, TRUE, <<>>, <<>>)
    IN  [out |-> IF r.out \in Exceptions THEN "ok" ELSE r.out,
         caught |-> IF r.out \in Exceptions THEN <<r.out>> ELSE <<>>,
         disk |-> r.disk,
         viz |-> IF r.out = "ok"
                 THEN [alive |-> TRUE, data |-> r.data, metadata |-> r.metadata]
                 ELSE v]

VizUpdate ==
    \E r \in {update_data(viz, disk)} :
        /\ viz.alive
        /\ disk' = r.disk
        /\ viz' = r.viz
        /\ lastOp' = Op("update_data", r.out, r.caught)
        /\ UNCHANGED <<loggerVars, multi, plt, ret>>

(***************************************************************************)
(* LogVisualizer.smooth_data.  A numpy array of one dimension is a         *)
(* sequence.  The Gaussian weights are kept as the pairs <<offset, sigma>>  *)
(* they are computed from, and an element of the convolution as the        *)
(* stretch of the padded series that the weights are applied to.           *)
(***************************************************************************)
\* the position a Python index k denotes as a bound of a slice of an array of
\* n elements: a negative index counts from the end, and bounds are clipped
PyIndex(k, n) == IF k < 0 THEN Max(n + k, 0) ELSE Min(k, n)

\* the positions (from 1) of the slice [start:stop]
SlicePositions(n, start, stop) == (PyIndex(start, n) + 1)..PyIndex(stop, n)

\* arr[start:stop] = value for an array value: [ok, arr]; the shapes must be
\* equal, or value has one element, which is broadcast
SetSlice(arr, start, stop, value) ==
    LET pos == SlicePositions(Len(arr), start, stop)
        k   == Cardinality(pos)
        lo  == PyIndex(start, Len(arr))
    IN  IF Len(value) = k
        THEN [ok |-> TRUE,
              arr |-> [i \in 1..Len(arr) |->
                          IF i \in pos THEN value[i - lo] ELSE arr[i]]]
        ELSE IF Len(value) = 1
        THEN [ok |-> TRUE,
              arr |-> [i \in 1..Len(arr) |->
                          IF i \in pos THEN value[1] ELSE arr[i]]]
        ELSE [ok |-> FALSE, arr |-> arr]

\* arr[start:stop] = x for a scalar x
FillSlice(arr, start, stop, x) ==
    [i \in 1..Len(arr) |->
        IF i \in SlicePositions(Len(arr), start, stop) THEN x ELSE arr[i]]

\* np.arange(-(window_size // 2), window_size // 2 + 1), weighted with sigma
Window(window_size, sigma) ==
    [i \in 1..(2 * (window_size \div 2) + 1) |->
        <<i - 1 - (window_size \div 2), sigma>>]

\* np.convolve(a, v, mode='valid'): max(M, N) - min(M, N) + 1 elements, each
\* the stretch of the longer array that the shorter one is applied to
Convolve(a, v) ==
    LET long  == IF Len(a) >= Len(v) THEN a ELSE v
        short == IF Len(a) >= Len(v) THEN v ELSE a
    IN  [i \in 1..(Len(long) - Len(short) + 1) |->
            [over |-> SubSeq(long, i, i + Len(short) - 1), with |-> short]]

\* smooth_data(series, window_size, sigma): [out, value]
smooth_data(series, window_size, sigma) ==
    LET h       == window_size \div 2
        window  == Window(window_size, sigma)
        zeros   == [i \in 1..(Len(series) + window_size - 1) |-> 0]
        placed  == SetSlice(zeros, h, 0 - h, series)
        left    == FillSlice(placed.arr, 0, h, series[1])
        right   == FillSlice(left, (0 - window_size) \div 2, Len(left),
                             series[Len(series)])
    IN  IF ~placed.ok THEN [out |-> "ValueError", value |-> <<>>]
        ELSE [out |-> "ok", value |-> Convolve(right, window)]

SmoothData(series, window_size, sigma) ==
    \E r \in {smooth_data(series, window_size, sigma)} :
        /\ ret' = [call |-> "smooth_data",
                   args |-> <<series, window_size, sigma>>,
                   out |-> r.out, value |-> r.value]
        /\ lastOp' = Op("smooth_data", r.out, <<>>)
        /\ UNCHANGED <<disk, loggerVars, viz, multi, plt>>

(***************************************************************************)
(* re.fullmatch for the patterns used here: a pattern is a sequence of     *)
(* atoms, an atom a literal character or "." (any character), each atom    *)
(* optionally followed by "*".  A "*" with no atom before it is rejected   *)
(* by re.compile ("nothing to repeat").                                    *)
(***************************************************************************)
AtomMatches(a, c) == a = "." \/ a = c

BadPattern(p) ==
    \E i \in 1..Len(p) : p[i] = "*" /\ (i = 1 \/ p[i - 1] = "*")

RECURSIVE FullMatch(_, _)
FullMatch(p, s) ==
    IF p = <<>> THEN s = <<>>
    ELSE IF Len(p) >= 2 /\ p[2] = "*"
    THEN \/ FullMatch(SubSeq(p, 3, Len(p)), s)
         \/ /\ s # <<>>
            /\ AtomMatches(p[1], s[1])
            /\ FullMatch(p, Tail(s))
    ELSE /\ s # <<>>
         /\ AtomMatches(p[1], s[1])
         /\ FullMatch(Tail(p), Tail(s))

\* the expressions a show_matching_scalars call iterates over.  expr is
\* [kind, s, list]: a str s, a list of str, or a compiled pattern of s.  A
\* str is an Iterable as a list is, so it is not wrapped and the loop runs
\* over its characters; only a value that is no Iterable is wrapped.
Expressions(expr) ==
    CASE expr.kind = "str"      -> [i \in 1..Len(expr.s) |-> <<expr.s[i]>>]
      [] expr.kind = "list"     -> expr.list
      [] expr.kind = "compiled" -> <<expr.s>>

StrExpr(s) == [kind |-> "str", s |-> s, list |-> <<>>]
ListExpr(l) == [kind |-> "list", s |-> <<>>, list |-> l]
CompiledExpr(s) == [kind |-> "compiled", s |-> s, list |-> <<>>]

\* the orders in which the elements of the set S may be iterated
Orders(S) ==
    {f \in [1..Cardinality(S) -> S] : \A i, j \in DOMAIN f : f[i] = f[j] => i = j}

\* the elements of sequence ord that are in S, in the order of ord
InOrder(ord, S) == SelectSeq(ord, LAMBDA c : c \in S)

(***************************************************************************)
(* Drawing.  plt is the sequence of the axes objects matplotlib has        *)
(* created, in the order of their creation; an axes object is named by its *)
(* position in plt and NoAxes is the argument axes=None.  An axes object   *)
(* holds the series plotted on it, the images shown on it, and its cell    *)
(* <<row, column>> when it is part of a grid of subplots.                  *)
(***************************************************************************)
NoAxes == 0

\* plt.figure().gca()
NewAxes == [lines |-> <<>>, images |-> <<>>, cell |-> <<>>]

\* self.logger.data[name].dropna(): the pairs <<iteration, value>>
DropNa(tb, name) ==
    {<<i, tb.cell[<<i, name>>]>> : i \in {j \in tb.index : tb.cell[<<j, name>>] # Null}}

\* LogVisualizer.show_graph(name, axes) of the visualizer with logger v and
\* label prefix pre, the axes objects being P: [out, axes, plt]
show_graph(v, pre, name, axes, P) ==
    IF name \notin v.data.cols
    THEN [out |-> "AssertionError", axes |-> axes, plt |-> P]
    ELSE IF name \notin DOMAIN v.metadata
    THEN [out |-> "KeyError", axes |-> axes, plt |-> P]
    ELSE IF v.metadata[name] # "scalar"
    THEN [out |-> "AssertionError", axes |-> axes, plt |-> P]
    ELSE LET P1 == IF axes = NoAxes THEN Append(P, NewAxes) ELSE P
             ax == IF axes = NoAxes THEN Len(P) + 1 ELSE axes
             line == [label |-> pre \o name, points |-> DropNa(v.data, name)]
         IN  [out |-> "ok", axes |-> ax,
              plt |-> [P1 EXCEPT ![ax].lines = Append(@, line)]]

\* LogVisualizer.show_img(name, iteration, axes) of the visualizer with
\* logger v, label prefix pre and run directory d: [out, axes, plt].  A cell
\* that read_csv left empty is NaN, which is not None, and Image.open of a
\* value that is not a path raises AttributeError
show_img(v, pre, d, name, iteration, axes, P) ==
    LET End(e) == [out |-> e, axes |-> axes, plt |-> P]
    IN  IF name \notin v.data.cols THEN End("AssertionError")
        ELSE IF name \notin DOMAIN v.metadata THEN End("KeyError")
        ELSE IF v.metadata[name] # "img" THEN End("AssertionError")
        ELSE LET P1 == IF axes = NoAxes THEN Append(P, NewAxes) ELSE P
                 ax == IF axes = NoAxes THEN Len(P) + 1 ELSE axes
             IN  IF iteration \notin v.data.index
                 THEN [out |-> "KeyError", axes |-> ax, plt |-> P1]
                 ELSE LET path == v.data.cell[<<iteration, name>>]
                      IN  IF path.t # "str"
                          THEN [out |-> "AttributeError", axes |-> ax, plt |-> P1]
                          ELSE IF path.s \notin DOMAIN d.imgs
                          THEN [out |-> "FileNotFoundError", axes |-> ax, plt |-> P1]
                          ELSE [out |-> "ok", axes |-> ax,
                                plt |-> [P1 EXCEPT ![ax].images =
                                           Append(@, [a |-> d.imgs[path.s],
                                                      title |-> pre \o name])]]

\* plt.gca(): the current axes object, a new one when there is none
Gca(P) == IF P = <<>> THEN [axes |-> 1, plt |-> <<NewAxes>>]
          ELSE [axes |-> Len(P), plt |-> P]

\* LogVisualizer.show_scalars(names, subplots, axes): [out, axes, plt]; an
\* exception of show_graph ends the call, and with subplots=False the
\* legend is drawn on the last axes object, which is None when nothing was
\* plotted and no axes object was given
RECURSIVE show_scalars(_, _, _, _, _, _)
show_scalars(v, pre, names, subplots, axes, P) ==
    IF names = <<>>
    THEN IF ~subplots /\ axes = NoAxes
         THEN [out |-> "AttributeError", axes |-> axes, plt |-> P]
         ELSE [out |-> "ok", axes |-> axes, plt |-> P]
    ELSE LET r == show_graph(v, pre, names[1], axes, P)
         IN  IF r.out # "ok" THEN r
             ELSE show_scalars(v, pre, Tail(names), subplots,
                               IF subplots THEN NoAxes ELSE r.axes, r.plt)

\* the names show_matching_scalars collects: for every expression in turn,
\* the columns (in the order cols of get_cols()) that it matches
RECURSIVE MatchingNames(_, _)
MatchingNames(exprs, cols) ==
    IF exprs = <<>> THEN <<>>
    ELSE SelectSeq(cols, LAMBDA c : FullMatch(exprs[1], c))
            \o MatchingNames(Tail(exprs), cols)

\* LogVisualizer.show_matching_scalars over the expressions exprs, cols
\* being get_cols(): [out, axes, plt]
show_matching_scalars(v, pre, exprs, cols, axes, P) ==
    IF cols # <<>> /\ \E j \in 1..Len(exprs) : BadPattern(exprs[j])
    THEN [out |-> "re.error", axes |-> axes, plt |-> P]
    ELSE show_scalars(v, pre, MatchingNames(exprs, cols), FALSE, axes, P)

\* the first drawing call of the analysis process that holds the
\* LogVisualizer: show_matching_scalars(expr)
ShowMatching(expr) ==
    \E cols \in Orders(viz.data.cols) :
    \E r \in {show_matching_scalars(viz, <<>>, Expressions(expr), cols,
                                     NoAxes, plt)} :
        /\ viz.alive
        /\ plt = <<>>
        /\ plt' = r.plt
        /\ ret' = [call |-> "show_matching_scalars", args |-> <<expr>>,
                   out |-> r.out, value |-> r.axes]
        /\ lastOp' = Op("show_matching_scalars", r.out, <<>>)
        /\ UNCHANGED <<disk, loggerVars, viz, multi>>

(***************************************************************************)
(* MultiLogVisualizer.  self.visualizers is the sequence vs of the         *)
(* LogVisualizer objects, each [data, metadata, prefix, dir]: the table    *)
(* and metadata of its logger, its label prefix and its run directory.     *)
(***************************************************************************)
\* f"{path.rpartition('/')[-1]}/" for the i-th path
RunPrefix(i) == <<"r">> \o Digits(i) \o <<"/">>

\* MultiLogVisualizer(*paths) on the directories dirs: [out, vs]
MultiLogVisualizer_init(dirs) ==
    LET r(i) == LogVisualizer_init(dirs[i])
    IN  IF \E i \in 1..Len(dirs) : r(i).out # "ok"
        THEN [out |-> r(CHOOSE i \in 1..Len(dirs) :
                          /\ r(i).out # "ok"
                          /\ \A j \in 1..(i - 1) : r(j).out = "ok").out,
              vs |-> <<>>]
        ELSE [out |-> "ok",
              vs |-> [i \in 1..Len(dirs) |->
                        [data |-> r(i).viz.data, metadata |-> r(i).viz.metadata,
                         prefix |-> RunPrefix(i), dir |-> r(i).disk]]]

\* Variant of TryGraphs without the try: the AssertionError of show_graph
\* ends the loop.
RECURSIVE TryGraphs_strict(_, _, _, _, _)
TryGraphs_strict(vs, i, name, axes, P) ==
    IF i > Len(vs) THEN [out |-> "ok", axes |-> axes, plt |-> P]
    ELSE LET r == show_graph(vs[i], vs[i].prefix, name, axes, P)
         IN  IF r.out = "ok" THEN TryGraphs_strict(vs, i + 1, name, r.axes, r.plt)
             ELSE r

\* for viz in self.visualizers[i:]: try: axes = viz.show_graph(name, axes)
\* except AssertionError: pass
RECURSIVE TryGraphs(_, _, _, _, _)
TryGraphs(vs, i, name, axes, P) ==
    IF i > Len(vs) THEN [out |-> "ok", axes |-> axes, plt |-> P]
    ELSE LET r == show_graph(vs[i], vs[i].prefix, name, axes, P)
         IN  IF r.out = "ok" THEN TryGraphs(vs, i + 1, name, r.axes, r.plt)
             ELSE IF r.out = "AssertionError" THEN TryGraphs(vs, i + 1, name, axes, P)
             ELSE r

\* MultiLogVisualizer.show_scalars(names, subplots, axes): [out, axes, plt];
\* the method returns None
RECURSIVE Multi_show_scalars(_, _, _, _, _)
Multi_show_scalars(vs, names, subplots, axes, P) ==
    IF names = <<>> THEN [out |-> "ok", axes |-> NoAxes, plt |-> P]
    ELSE LET r == TryGraphs(vs, 1, names[1], axes, P)
         IN  IF r.out # "ok" THEN r
             ELSE Multi_show_scalars(vs, Tail(names), subplots,
                                     IF subplots THEN NoAxes ELSE r.axes, r.plt)

\* MultiLogVisualizer.get_cols(), as a set
Multi_get_cols(vs) == UNION {vs[i].data.cols : i \in 1..Len(vs)}

\* for name in names: try: axes = viz.show_graph(name, axes)
\* except AssertionError: pass
RECURSIVE TryNames(_, _, _, _)
TryNames(v, names, axes, P) ==
    IF names = <<>> THEN [out |-> "ok", axes |-> axes, plt |-> P]
    ELSE LET r == show_graph(v, v.prefix, names[1], axes, P)
         IN  IF r.out = "ok" THEN TryNames(v, Tail(names), r.axes, r.plt)
             ELSE IF r.out = "AssertionError" THEN TryNames(v, Tail(names), axes, P)
             ELSE r

\* for viz in self.visualizers[i:]: for name in names: ...
RECURSIVE TryVisualizers(_, _, _, _, _)
TryVisualizers(vs, i, names, axes, P) ==
    IF i > Len(vs) THEN [out |-> "ok", axes |-> axes, plt |-> P]
    ELSE LET r == TryNames(vs[i], names, axes, P)
         IN  IF r.out # "ok" THEN r
             ELSE TryVisualizers(vs, i + 1, names, r.axes, r.plt)

\* MultiLogVisualizer.show_matching_scalars over the expressions exprs, the
\* sets of names being iterated in the order of ord: [out, axes, plt]
RECURSIVE Multi_show_matching_scalars(_, _, _, _, _)
Multi_show_matching_scalars(vs, exprs, ord, axes, P) ==
    IF exprs = <<>>
    THEN [out |-> "ok", axes |-> Gca(P).axes, plt |-> Gca(P).plt]
    ELSE IF Multi_get_cols(vs) # {} /\ BadPattern(exprs[1])
    THEN [out |-> "re.error", axes |-> axes, plt |-> P]
    ELSE LET names == InOrder(ord, {c \in Multi_get_cols(vs) :
                                       FullMatch(exprs[1], c)})
             r == TryVisualizers(vs, 1, names, axes, P)
         IN  IF r.out # "ok" THEN r
             ELSE Multi_show_matching_scalars(vs, Tail(exprs), ord, NoAxes, r.plt)

\* int(np.floor(np.sqrt(n_img)))
height(n_img) == CHOOSE h \in 0..n_img : h * h <= n_img /\ n_img < (h + 1) * (h + 1)

\* Variant of width that rounds n_img / height down.
width_floor(n_img, h) == n_img \div h

\* int(np.ceil(n_img / height)), for height > 0
width(n_img, h) == (n_img + h - 1) \div h

\* plt.subplots(h, w, squeeze=False): h * w new axes objects, row by row
Subplots(h, w, P) ==
    P \o [k \in 1..(h * w) |->
            [NewAxes EXCEPT !.cell = <<(k - 1) \div w, (k - 1) % w>>]]

\* ax[r, c] of the h x w array of the axes objects created after the
\* first base ones: NoAxes stands for the IndexError of numpy
AxAt(base, h, w, r, c) ==
    IF r < h /\ c < w THEN base + r * w + c + 1 ELSE NoAxes

\* for i, viz in enumerate(self.visualizers): the runs from position i on
\* (i counts from 0), last being the value of the variable axes
RECURSIVE ShowImgs(_, _, _, _, _, _, _, _, _)
ShowImgs(vs, i, name, iteration, base, h, w, last, P) ==
    IF i >= Len(vs) THEN [out |-> "ok", axes |-> last, plt |-> P]
    ELSE LET axes == AxAt(base, h, w, i \div w, i % w)
         IN  IF axes = NoAxes THEN [out |-> "IndexError", axes |-> last, plt |-> P]
             ELSE LET r == show_img(vs[i + 1], vs[i + 1].prefix, vs[i + 1].dir,
                                    name, iteration, axes, P)
                  IN  IF r.out # "ok" THEN r
                      ELSE ShowImgs(vs, i + 1, name, iteration, base, h, w,
                                    axes, r.plt)

\* MultiLogVisualizer.show_img(name, iteration): [out, axes, plt]; with no
\* visualizer the division n_img / height is 0 / 0
Multi_show_img(vs, name, iteration, P) ==
    LET n_img == Len(vs)
        h == height(n_img)
    IN  IF h = 0 THEN [out |-> "ZeroDivisionError", axes |-> NoAxes, plt |-> P]
        ELSE ShowImgs(vs, 0, name, iteration, Len(P), h, width(n_img, h),
                      NoAxes, Subplots(h, width(n_img, h), P))

\* the first drawing call of the process: show_img(name, iteration)
MultiShowImg(name, iteration) ==
    \E r \in {Multi_show_img(multi, name, iteration, plt)} :
        /\ multi # <<>>
        /\ plt = <<>>
        /\ plt' = r.plt
        /\ ret' = [call |-> "show_img", args |-> <<name, iteration>>,
                   out |-> r.out, value |-> r.axes]
        /\ lastOp' = Op("show_img", r.out, name)
        /\ UNCHANGED <<disk, loggerVars, viz, multi>>

\* a new analysis process builds a MultiLogVisualizer on the directories
MultiInit(dirs) ==
    \E r \in {MultiLogVisualizer_init(dirs)} :
        /\ multi' = r.vs
        /\ plt' = <<>>
        /\ ret' = [call |-> "MultiLogVisualizer", args |-> <<>>,
                   out |-> r.out, value |-> <<>>]
        /\ lastOp' = Op("multi_init", r.out, <<>>)
        /\ UNCHANGED <<disk, loggerVars, viz>>

\* the first drawing call of the process: show_scalars(names, subplots)
MultiShowScalars(names, subplots) ==
    \E r \in {Multi_show_scalars(multi, names, subplots, NoAxes, plt)} :
        /\ multi # <<>>
        /\ plt = <<>>
        /\ plt' = r.plt
        /\ ret' = [call |-> "multi_show_scalars", args |-> <<names, subplots>>,
                   out |-> r.out, value |-> <<>>]
        /\ lastOp' = Op("multi_show_scalars", r.out, <<>>)
        /\ UNCHANGED <<disk, loggerVars, viz, multi>>

\* the first drawing call of the process: show_matching_scalars(expr)
MultiShowMatching(expr) ==
    \E ord \in Orders(Multi_get_cols(multi)) :
    \E r \in {Multi_show_matching_scalars(multi, Expressions(expr), ord,
                                           NoAxes, plt)} :
        /\ multi # <<>>
        /\ plt = <<>>
        /\ plt' = r.plt
        /\ ret' = [call |-> "multi_show_matching_scalars",
                   args |-> <<Expressions(expr), expr.kind>>,
                   out |-> r.out, value |-> r.axes]
        /\ lastOp' = Op("multi_show_matching_scalars", r.out, <<>>)
        /\ UNCHANGED <<disk, loggerVars, viz, multi>>

\* MultiLogVisualizer.show_all_scalars(subplots, axes): [out, axes, plt].
\* Its first statement reads self.visualizers[0].metadata; a LogVisualizer
\* has the attributes logger and prefix and no attribute metadata, so the
\* read raises, and on an empty list the subscript does.
Multi_show_all_scalars(vs, subplots, axes, P) ==
    IF vs = <<>> THEN [out |-> "IndexError", axes |-> axes, plt |-> P]
    ELSE [out |-> "AttributeError", axes |-> axes, plt |-> P]

\* the first drawing call of the process: show_all_scalars(subplots)
MultiShowAll(subplots) ==
    \E r \in {Multi_show_all_scalars(multi, subplots, NoAxes, plt)} :
        /\ multi # <<>>
        /\ plt = <<>>
        /\ plt' = r.plt
        /\ ret' = [call |-> "multi_show_all_scalars", args |-> <<subplots>>,
                   out |-> r.out, value |-> r.axes]
        /\ lastOp' = Op("multi_show_all_scalars", r.out, <<>>)
        /\ UNCHANGED <<disk, loggerVars, viz, multi>>

(***************************************************************************)
(* Inputs                                                                  *)
(***************************************************************************)
Iterations == {NoneIter} \cup (0..(MaxRows - 1))
SaveFreqs == 1..MaxSaveFreq
ScalarValues == {Num(1)}
TextValues == {Str(<<"1">>), Str(<<"b">>)}
Answers == {<<"y">>, <<"Y", "E", "S">>, <<"j", "A">>, <<"n">>, <<>>, <<"y", "e">>}
Segs == {<<>>, <<"a">>, <<"b">>}
Batches == {<<<<(<<"a">>), Num(1)>>>>,
            <<<<(<<"a">>), Num(1)>>, <<(<<"b">>), Num(1)>>>>,
            <<<<(<<"b">>), Num(1)>>, <<(<<"a">>), Num(1)>>>>}

(***************************************************************************)
(* Spec: one training process writing to the run directory.                *)
(***************************************************************************)
CoreNames == {<<"a">>}
CoreAnswers == {<<"y">>, <<"n">>}
CoreTexts == {Str(<<"b">>)}

Next ==
    \/ \E ow \in BOOLEAN, a1 \in CoreAnswers, a2 \in CoreAnswers, f \in SaveFreqs :
          Construct(ow, a1, a2, f)
    \/ \E n \in CoreNames, v \in ScalarValues, i \in Iterations : add_scalar(n, v, i)
    \/ \E n \in CoreNames, v \in CoreTexts, i \in Iterations : add_text(n, v, i)
    \/ \E n \in CoreNames, v \in ImgValues, i \in Iterations : add_image(n, v, i)
    \/ \E i \in Iterations, kv \in Batches : add_scalars(<<>>, <<>>, i, kv)
    \/ flush

Spec == Init /\ [][Next]_vars

(***************************************************************************)
(* SpecLoad: runs of the training process that end and start again on the  *)
(* same directory, with the answers an operator may type at the prompts.   *)
(***************************************************************************)
LoadNames == {<<"a">>, <<>>}

NextLoad ==
    \/ \E ow \in BOOLEAN, a1 \in Answers, a2 \in Answers :
          Construct(ow, a1, a2, 1)
    \/ \E n \in LoadNames, v \in ScalarValues : add_scalar(n, v, NoneIter)
    \/ \E n \in LoadNames, v \in TextValues : add_text(n, v, NoneIter)
    \/ \E n \in LoadNames, v \in ImgValues : add_image(n, v, NoneIter)
    \/ flush

SpecLoad == Init /\ [][NextLoad]_vars

(***************************************************************************)
(* SpecFix: the prefix and postfix mutators around the first write of a    *)
(* logger.                                                                 *)
(***************************************************************************)
NextFix ==
    \/ Construct(TRUE, <<>>, <<>>, 1)
    \/ \E s \in Segs : add_to_prefix(s)
    \/ \E s \in Segs : remove_from_prefix(s)
    \/ \E s \in Segs : add_to_postfix(s)
    \/ \E s \in Segs : remove_from_postfix(s)
    \/ \E n \in CoreNames, v \in ScalarValues :
          add_scalar(n, v, 0) /\ data.cols = {}

SpecFix == Init /\ [][NextFix]_vars

(***************************************************************************)
(* SpecViz: a training process and an analysis process that opens a        *)
(* LogVisualizer on the run directory and refreshes it.                    *)
(***************************************************************************)
VizNames == {<<"a">>, <<>>}

NextViz ==
    \/ \E f \in SaveFreqs : Construct(TRUE, <<>>, <<>>, f)
    \/ \E n \in VizNames, v \in ScalarValues : add_scalar(n, v, NoneIter)
    \/ \E n \in CoreNames, v \in ImgValues : add_image(n, v, NoneIter)
    \/ flush
    \/ VizInit
    \/ VizUpdate

SpecViz == Init /\ [][NextViz]_vars

(***************************************************************************)
(* SpecBatch: add_scalars with its pre and post arguments, on a logger     *)
(* that also holds text columns.                                           *)
(***************************************************************************)
BatchTextNames == {<<"a">>, <<"a", "a">>}

NextBatch ==
    \/ Construct(TRUE, <<>>, <<>>, 1)
    \/ \E n \in BatchTextNames, v \in CoreTexts : add_text(n, v, 0)
    \/ \E pre \in Segs, post \in Segs, i \in Iterations, kv \in Batches :
          add_scalars(pre, post, i, kv)

SpecBatch == Init /\ [][NextBatch]_vars

(***************************************************************************)
(* SpecCorrupt: runs of the training process on a directory whose          *)
(* data.meta is also written from outside the logger (another program, an  *)
(* editor), so that the constructor meets stored metadata that does not    *)
(* fit the stored table.                                                   *)
(***************************************************************************)
ForeignTypes == {"scalar", "image"}
ForeignMeta == {<<>>} \cup {[k \in {<<"a">>} |-> ty] : ty \in ForeignTypes}

\* data.meta of a directory that holds one is replaced by the text of md
EditMeta(md) ==
    /\ disk.meta.exists
    /\ disk' = [disk EXCEPT !.meta = MetaDump(md)]
    /\ lastOp' = Op("edit_meta", "ok", <<>>)
    /\ UNCHANGED <<loggerVars, viz, multi, plt, ret>>

NextCorrupt ==
    \/ \E ow \in BOOLEAN, a1 \in CoreAnswers, a2 \in CoreAnswers :
          Construct(ow, a1, a2, 1)
    \/ \E n \in LoadNames, v \in ScalarValues : add_scalar(n, v, NoneIter)
    \/ \E n \in LoadNames, v \in CoreTexts : add_text(n, v, NoneIter)
    \/ \E md \in ForeignMeta : EditMeta(md)

SpecCorrupt == Init /\ [][NextCorrupt]_vars

(***************************************************************************)
(* SpecSmooth: calls of smooth_data on series of up to MaxSeries values    *)
(* with windows of up to MaxWindow.                                        *)
(***************************************************************************)
SeriesValues == {1, 2}
Series == UNION {[1..n -> SeriesValues] : n \in 1..MaxSeries}
Windows == 1..MaxWindow
Sigmas == {1, 3}

NextSmooth ==
    \E s \in Series, w \in Windows, sg \in Sigmas : SmoothData(s, w, sg)

SpecSmooth == Init /\ [][NextSmooth]_vars

(***************************************************************************)
(* Run directories as loggers leave them: the directory after the writes   *)
(* of a fresh logger and flush().                                          *)
(***************************************************************************)
NoFields == [data |-> EmptyTable, metadata |-> <<>>, meta_changed |-> FALSE]

\* the directory d after flush() of a logger with the fields st
Flushed(st, d) == save(st, 0, d, 1, TRUE).disk

\* add_scalar(name, 1, 0); flush()
RunScalar(name) ==
    Flushed(insert_scalar(NoFields, <<>>, <<>>, name, Num(1), 0), EmptyDir)

\* add_text(n1, "b", 0); add_scalar(n2, 1, 0); flush()
RunTextScalar(n1, n2) ==
    Flushed(insert_scalar(insert_text(NoFields, <<>>, <<>>, n1, Str(<<"b">>), 0),
                          <<>>, <<>>, n2, Num(1), 0), EmptyDir)

\* add_image(name, img, 0); flush()
RunImage(name) ==
    LET r == insert_image(NoFields, EmptyDir, <<>>, <<>>, name,
                          [dtype |-> "uint8", px |-> 0], 0)
    IN  Flushed(r, r.disk)

\* the sequences of 1 to n elements of S
SeqsUpTo(S, n) == UNION {[1..k -> S] : k \in 1..n}

(***************************************************************************)
(* SpecMulti: an analysis process that builds a MultiLogVisualizer on up   *)
(* to MaxRuns run directories and makes a drawing call.                    *)
(***************************************************************************)
MultiDirs == {RunScalar(<<"a">>), RunScalar(<<"b">>),
              RunTextScalar(<<"a">>, <<"b">>)}
NameLists == {<<(<<"a">>)>>, <<(<<"a">>), (<<"b">>)>>, <<(<<"b">>), (<<"a">>)>>,
              <<(<<"c">>)>>}
MultiExprs == {ListExpr(l) : l \in NameLists}
                  \cup {StrExpr(<<"a", "b">>), CompiledExpr(<<"a">>)}

NextMulti ==
    \/ \E dirs \in SeqsUpTo(MultiDirs, MaxRuns) : multi = <<>> /\ MultiInit(dirs)
    \/ \E names \in NameLists, subplots \in BOOLEAN :
          MultiShowScalars(names, subplots)
    \/ \E expr \in MultiExprs : MultiShowMatching(expr)
    \/ \E subplots \in BOOLEAN : MultiShowAll(subplots)

SpecMulti == Init /\ [][NextMulti]_vars

(***************************************************************************)
(* SpecGrid: an analysis process that builds a MultiLogVisualizer on up to *)
(* MaxRuns run directories, with and without an image column a, and calls  *)
(* show_img.                                                               *)
(***************************************************************************)
GridDirs == {RunImage(<<"a">>), RunScalar(<<"a">>)}
GridNames == {<<"a">>, <<"b">>}

NextGrid ==
    \/ \E dirs \in SeqsUpTo(GridDirs, MaxRuns) : multi = <<>> /\ MultiInit(dirs)
    \/ \E name \in GridNames, iteration \in Iterations \ {NoneIter} :
          MultiShowImg(name, iteration)

SpecGrid == Init /\ [][NextGrid]_vars

(***************************************************************************)
(* SpecImage: one logger that logs images under a prefix, at given         *)
(* iterations and at the default one, with a save threshold.               *)
(***************************************************************************)
ImageSegs == {<<"p">>}

NextImage ==
    \/ \E f \in SaveFreqs : ~alive /\ Construct(TRUE, <<>>, <<>>, f)
    \/ \E s \in ImageSegs : add_to_prefix(s)
    \/ \E n \in CoreNames, v \in ImgValues, i \in Iterations : add_image(n, v, i)
    \/ flush

SpecImage == Init /\ [][NextImage]_vars

(***************************************************************************)
(* SpecShow: a training process that writes scalar columns, and an         *)
(* analysis process that opens a LogVisualizer on the directory and calls  *)
(* show_matching_scalars.                                                  *)
(***************************************************************************)
ShowNames == {<<"a">>, <<"b">>}
ShowExprs == {StrExpr(<<"a">>), StrExpr(<<".">>), StrExpr(<<".", "*">>),
              CompiledExpr(<<".", "*">>),
              ListExpr(<<(<<"a">>)>>), ListExpr(<<(<<"a">>), (<<"b">>)>>),
              ListExpr(<<(<<".", "*">>)>>)}

NextShow ==
    \/ Construct(TRUE, <<>>, <<>>, 1)
    \/ \E n \in ShowNames, v \in ScalarValues : add_scalar(n, v, 0)
    \/ VizInit
    \/ \E expr \in ShowExprs : ShowMatching(expr)

SpecShow == Init /\ [][NextShow]_vars

(***************************************************************************)
(* Properties                                                              *)
(***************************************************************************)
SingleAdds == {"add_scalar", "add_text", "add_image"}
AllAdds == SingleAdds \cup {"add_scalars"}

TypeOf(op) ==
    CASE op = "add_scalar" -> "scalar"
      [] op = "add_text"   -> "text"
      [] op = "add_image"  -> "img"

\* C1: whatever add_* calls were made on a logger, returned or failed, the
\* keys of its metadata are the columns of its table and every type in the
\* metadata is scalar, text or img.
MetadataMatchesTable ==
    alive => /\ DOMAIN metadata = data.cols
             /\ \A k \in DOMAIN metadata : metadata[k] \in {"scalar", "text", "img"}

\* an add_scalars call failed on its second key, after it created a column
MetadataMatchesTableWitness ==
    /\ alive
    /\ lastOp.op = "add_scalars"
    /\ lastOp.out = "AssertionError"
    /\ Cardinality(data.cols) = 2
    /\ \E k \in DOMAIN metadata : metadata[k] # "scalar"

\* C2: an add_scalar, add_text or add_image call whose resolved name is a
\* column of another type fails with the assertion error of the type check,
\* and a call that fails so leaves the table, the metadata, the write
\* counter and the directory as they were.
TypeImmutable ==
    [][(lastOp'.op \in SingleAdds /\ postfix # PyNone) =>
          LET target == prefix \o lastOp'.arg \o postfix
          IN  /\ (target \in DOMAIN metadata
                    /\ metadata[target] # TypeOf(lastOp'.op))
                 => lastOp'.out = "AssertionError"
              /\ lastOp'.out = "AssertionError"
                 => UNCHANGED <<data, metadata, save_calls, disk>>]_vars

\* an add_image call on a column of another type has failed
TypeImmutableWitness ==
    /\ alive
    /\ lastOp.op = "add_image"
    /\ lastOp.out = "AssertionError"
    /\ \E k \in DOMAIN metadata : metadata[k] = "text"

\* C3: right after flush() data.csv holds the table of the logger and
\* data.meta holds its metadata.
FlushPersists ==
    (alive /\ lastOp.op = "flush")
    => /\ disk.csv = to_csv(data)
       /\ disk.meta = MetaDump(metadata)

\* C4: with save_freq = N, an add_* call that returns leaves data.csv as it
\* was when fewer than N such calls were made since the construction or the
\* last write of data.csv, and writes the table to data.csv when it is the
\* N-th; the count starts again after every write, that of flush() included.
SaveThreshold ==
    [][/\ (lastOp'.op \in AllAdds /\ lastOp'.out = "ok")
          => IF sinceWrite + 1 < save_freq
             THEN disk'.csv = disk.csv /\ sinceWrite' = sinceWrite + 1
             ELSE disk'.csv = to_csv(data') /\ sinceWrite' = 0
       /\ lastOp'.op = "flush"
          => disk'.csv = to_csv(data') /\ sinceWrite' = 0]_vars

\* the second add_scalar call of a logger with save_freq = 2 has written
\* data.csv, after a first call that did not
SaveThresholdWitness ==
    /\ alive
    /\ save_freq > 1
    /\ lastOp.op = "add_scalar"
    /\ lastOp.out = "ok"
    /\ sinceWrite = 0
    /\ disk.csv = to_csv(data)

\* the construction is confirmed: the overwrite flag is set, or it is not
\* and both prompts are answered with a yes
Confirmed(freq) ==
    \/ Construct(TRUE, <<>>, <<>>, freq)
    \/ \E a1 \in Answers, a2 \in Answers :
          /\ Lower(a1) \in YES
          /\ Lower(a2) \in YES
          /\ Construct(FALSE, a1, a2, freq)

\* C5: a logger constructed on the directory right after flush() holds the
\* table and the metadata of the logger that flushed, and its construction
\* leaves the directory as it was.
RoundTrip ==
    [][(alive /\ lastOp.op = "flush" /\ Confirmed(1))
          => /\ lastOp'.out = "ok"
             /\ data' = data
             /\ metadata' = metadata
             /\ disk' = disk]_vars

\* the answer is none of y, yes, j, ja in any case of letters
NotYes(answer) == Lower(answer) \notin YES

\* one of the prompts the constructor asks on directory d gets an answer
\* that is not a yes: the prompt asked when data.csv is there, or the
\* prompt asked when data.csv or data.meta is missing
Declined(d, a1, a2) ==
    IF d.csv.exists
    THEN NotYes(a1) \/ (~d.meta.exists /\ NotYes(a2))
    ELSE NotYes(a2)

\* C6: the construction of a logger on a directory that exists, without
\* the overwrite flag and with a prompt answered by something else than y,
\* yes, j or ja, ends in sys.exit(-1), leaves no logger, and leaves the
\* directory and its files as they were.
DeclinedConstructionAborts ==
    [][\A a1 \in Answers, a2 \in Answers :
          (disk.exists /\ Declined(disk, a1, a2) /\ Construct(FALSE, a1, a2, 1))
          => /\ lastOp'.out = "SystemExit"
             /\ ~alive'
             /\ disk' = disk]_vars

\* a construction ended in sys.exit(-1) on a directory that holds a table
\* with a column and its metadata
DeclinedConstructionAbortsWitness ==
    /\ lastOp.op = "init"
    /\ lastOp.out = "SystemExit"
    /\ ~alive
    /\ disk.csv.exists
    /\ disk.csv.header # {}
    /\ disk.meta.exists

\* C7: the construction of a LogVisualizer on a run directory, and its
\* update_data(), leave the directory and its files as they were.
VisualizerReadOnly ==
    [][(disk.exists /\ lastOp'.op \in {"viz_init", "update_data"})
          => disk' = disk]_vars

\* C8: an add_scalar, add_text or add_image call without an iteration that
\* returns has written into a row that was not in the table, and has left
\* every cell that was in the table as it was.
NoIterationAppends ==
    [][((\/ \E n \in CoreNames, v \in ScalarValues : add_scalar(n, v, NoneIter)
         \/ \E n \in CoreNames, v \in CoreTexts : add_text(n, v, NoneIter)
         \/ \E n \in CoreNames, v \in ImgValues : add_image(n, v, NoneIter))
        /\ lastOp'.out = "ok")
          => /\ Cardinality(data'.index) = Cardinality(data.index) + 1
             /\ \A p \in data.index \X data.cols : data'.cell[p] = data.cell[p]]_vars

\* C9: remove_from_prefix(s) right after add_to_prefix(s) gives back the
\* prefix from before the two calls, for every segment s.
PrefixPushPop ==
    [][(/\ lastOp.op = "add_to_prefix"
        /\ lastOp.out = "ok"
        /\ lastOp'.op = "remove_from_prefix"
        /\ lastOp'.arg = lastOp.arg)
          => /\ lastOp'.out = "ok"
             /\ prefix' = SubSeq(prefix, 1, Len(prefix) - Len(lastOp.arg))]_vars

\* C10: remove_from_postfix(s) right after add_to_postfix(s) gives back the
\* postfix from before the two calls, for every segment s.
PostfixPushPop ==
    [][(/\ lastOp.op = "add_to_postfix"
        /\ lastOp.out = "ok"
        /\ lastOp'.op = "remove_from_postfix"
        /\ lastOp'.arg = lastOp.arg)
          => /\ lastOp'.out = "ok"
             /\ postfix' = SubSeq(postfix, 1, Len(postfix) - Len(lastOp.arg))]_vars

\* C11: remove_from_prefix(s) on a prefix that does not end with s, and
\* remove_from_postfix(s) on a postfix that does not end with s, raise an
\* error and leave the prefix, the postfix, the table and the metadata as
\* they were.
MismatchedPopRejected ==
    [][/\ (/\ lastOp'.op = "remove_from_prefix"
           /\ (prefix = PyNone \/ ~EndsWith(prefix, lastOp'.arg)))
          => /\ lastOp'.out # "ok"
             /\ UNCHANGED <<prefix, postfix, data, metadata>>
       /\ (/\ lastOp'.op = "remove_from_postfix"
           /\ (postfix = PyNone \/ ~EndsWith(postfix, lastOp'.arg)))
          => /\ lastOp'.out # "ok"
             /\ UNCHANGED <<prefix, postfix, data, metadata>>]_vars

\* remove_from_prefix has raised ValueError on a logger with a prefix and a
\* column
MismatchedPopRejectedWitness ==
    /\ alive
    /\ lastOp.op = "remove_from_prefix"
    /\ lastOp.out = "ValueError"
    /\ prefix # <<>>
    /\ data.cols # {}

\* C12: when an add_scalars call has ended, by returning or by the assertion
\* error of a type mismatch on one of its keys, the prefix and the postfix
\* of the logger are what they were before the call.
AddScalarsRestoresFixes ==
    [][(lastOp'.op = "add_scalars" /\ lastOp'.out \in {"ok", "AssertionError"})
          => /\ prefix' = prefix
             /\ postfix' = postfix]_vars

\* C13: an add_scalars call without an iteration that returns has put every
\* value of its batch into one row, the row numbered by the count of rows
\* the table had before the call, whether its keys were columns or not.
BatchSharesRow ==
    [][\A pre \in Segs, post \in Segs, kv \in Batches :
          (add_scalars(pre, post, NoneIter, kv) /\ lastOp'.out = "ok")
          => LET row == Cardinality(data.index)
             IN  \A j \in 1..Len(kv) :
                    LET col == prefix \o pre \o kv[j][1] \o postfix \o post
                    IN  /\ <<row, col>> \in DOMAIN data'.cell
                        /\ data'.cell[<<row, col>>] = kv[j][2]]_vars

\* add_scalars without an iteration has returned on a table that held a
\* row: it wrote two scalar columns, one of them created by the call, and
\* both values are in the new row
BatchSharesRowWitness ==
    /\ alive
    /\ lastOp.op = "add_scalars"
    /\ lastOp.out = "ok"
    /\ Cardinality(data.index) = 2
    /\ \E c1 \in data.cols, c2 \in data.cols :
          /\ c1 # c2
          /\ data.cell[<<1, c1>>] = Num(1)
          /\ data.cell[<<1, c2>>] = Num(1)
          /\ metadata[c1] = "scalar"
          /\ metadata[c2] = "scalar"
          /\ data.cell[<<0, c2>>] = Null

\* the metadata stored in directory d parses, and its keys are not the
\* columns of the stored table or one of its types is unknown
Corrupted(d) ==
    /\ d.csv.exists
    /\ d.meta.exists
    /\ MetaLoad(d.meta).ok
    /\ \/ DOMAIN MetaLoad(d.meta).md # read_csv(d.csv).cols
       \/ \E k \in DOMAIN MetaLoad(d.meta).md :
             MetaLoad(d.meta).md[k] \notin {"scalar", "text", "img"}

\* C14: the construction of a logger on a directory whose stored metadata
\* keys differ from the stored columns, or whose stored metadata holds a
\* type other than scalar, text and img, ends in an error, leaves no
\* logger, and leaves the directory and its files as they were.
LoadValidationAborts ==
    [][(Corrupted(disk) /\ lastOp'.op = "init")
          => /\ lastOp'.out # "ok"
             /\ ~alive'
             /\ disk' = disk]_vars

\* a construction with the overwrite flag has ended in the assertion error
\* on a directory whose stored metadata holds the unknown type "image"
LoadValidationAbortsWitness ==
    /\ lastOp.op = "init"
    /\ lastOp.out = "AssertionError"
    /\ ~alive
    /\ Corrupted(disk)
    /\ DOMAIN MetaLoad(disk.meta).md = read_csv(disk.csv).cols

\* C15: when the constructor run by update_data() raises, update_data()
\* returns and the visualizer holds the table and the metadata it held
\* before the call.
RefreshKeepsSnapshot ==
    [][(/\ lastOp'.op = "update_data"
        /\ TrainingLogger_init(disk, TRUE, <<>>, <<>>).out # "ok")
          => /\ lastOp'.out = "ok"
             /\ viz' = viz]_vars

\* update_data() has caught the assertion error of the load validation on a
\* visualizer that holds a table with a column
RefreshKeepsSnapshotWitness ==
    /\ lastOp.op = "update_data"
    /\ lastOp.out = "ok"
    /\ lastOp.arg = <<"AssertionError">>
    /\ viz.alive
    /\ viz.data.cols # {}

\* C16: smooth_data on a series of n >= 1 values with an odd window_size
\* between 1 and n returns, for every sigma, a series of n values.
SmoothingKeepsLength ==
    (/\ ret.call = "smooth_data"
     /\ ret.args[2] % 2 = 1
     /\ ret.args[2] <= Len(ret.args[1]))
    => /\ ret.out = "ok"
       /\ Len(ret.value) = Len(ret.args[1])

\* the series drawn on the axes objects P, each named by its axes object and
\* its position among the series of that object
Drawn(P) ==
    UNION {{<<ax, k>> : k \in 1..Len(P[ax].lines)} : ax \in 1..Len(P)}

\* the pairs of a run of vs and a name of names that is a scalar column of
\* that run
ScalarPairs(vs, names) ==
    {pr \in (1..Len(vs)) \X {names[j] : j \in 1..Len(names)} :
        /\ pr[2] \in vs[pr[1]].data.cols
        /\ vs[pr[1]].metadata[pr[2]] = "scalar"}

\* C17: show_scalars(names) and show_matching_scalars(names) of a
\* MultiLogVisualizer, for a list of column names, return and have drawn
\* one series for every pair of a run and a name that is a scalar column of
\* that run, and no other series.
TolerantSkip ==
    (\/ ret.call = "multi_show_scalars"
     \/ ret.call = "multi_show_matching_scalars" /\ ret.args[2] = "list")
    => /\ ret.out = "ok"
       /\ Cardinality(Drawn(plt)) = Cardinality(ScalarPairs(multi, ret.args[1]))
       /\ \A pr \in ScalarPairs(multi, ret.args[1]) :
             \E d \in Drawn(plt) :
                plt[d[1]].lines[d[2]].label = multi[pr[1]].prefix \o pr[2]

\* show_scalars(["a"]) has returned on two runs of which the first has the
\* scalar column "a" and the second has no column "a": one series is drawn
TolerantSkipWitness ==
    /\ ret.call = "multi_show_scalars"
    /\ ret.out = "ok"
    /\ ret.args[1] = <<(<<"a">>)>>
    /\ Len(multi) = 2
    /\ <<"a">> \in multi[1].data.cols
    /\ multi[1].metadata[<<"a">>] = "scalar"
    /\ <<"a">> \notin multi[2].data.cols
    /\ Cardinality(Drawn(plt)) = 1

\* the pairs of a run of vs and a column of that run of type scalar
AllScalarPairs(vs) ==
    {pr \in (1..Len(vs)) \X Multi_get_cols(vs) :
        /\ pr[2] \in vs[pr[1]].data.cols
        /\ vs[pr[1]].metadata[pr[2]] = "scalar"}

\* C18: show_all_scalars() of a MultiLogVisualizer with at least one run
\* returns and has drawn one series for every run and every column that is
\* a scalar column of that run, and no other series.
ShowAllScalarsDraws ==
    (ret.call = "multi_show_all_scalars" /\ multi # <<>>)
    => /\ ret.out = "ok"
       /\ Cardinality(Drawn(plt)) = Cardinality(AllScalarPairs(multi))
       /\ \A pr \in AllScalarPairs(multi) :
             \E d \in Drawn(plt) :
                plt[d[1]].lines[d[2]].label = multi[pr[1]].prefix \o pr[2]

\* the expressions a show_matching_scalars call is given: the one string,
\* or the strings of the list
Given(expr) == IF expr.kind = "list" THEN expr.list ELSE <<expr.s>>

\* the columns of table tb whose full name matches pattern p
Matched(tb, p) == {c \in tb.cols : FullMatch(p, c)}

\* the labels of the series drawn on axes object ax of P
LabelsOn(P, ax) == {P[ax].lines[k].label : k \in 1..Len(P[ax].lines)}

\* C19: show_matching_scalars of a LogVisualizer whose columns are scalar
\* columns, called with patterns that each match a column, plots the
\* columns whose full name matches a pattern and no other; given one
\* string, all of them on one axes object; given a list of k patterns, on k
\* axes objects, one per pattern, that hold the matches of their pattern.
MatchingGroupsByPattern ==
    [][(/\ lastOp'.op = "show_matching_scalars"
        /\ \A c \in viz.data.cols : viz.metadata[c] = "scalar"
        /\ \A j \in 1..Len(Given(ret'.args[1])) :
              /\ ~BadPattern(Given(ret'.args[1])[j])
              /\ Matched(viz.data, Given(ret'.args[1])[j]) # {})
          => LET pats == Given(ret'.args[1])
                 used == {d[1] : d \in Drawn(plt')}
             IN  /\ ret'.out = "ok"
                 /\ UNION {LabelsOn(plt', ax) : ax \in used}
                      = UNION {Matched(viz.data, pats[j]) : j \in 1..Len(pats)}
                 /\ Cardinality(used) = Len(pats)
                 /\ \E f \in [1..Len(pats) -> used] :
                       /\ \A i, j \in 1..Len(pats) : f[i] = f[j] => i = j
                       /\ \A j \in 1..Len(pats) :
                             LabelsOn(plt', f[j]) = Matched(viz.data, pats[j])]_vars

\* run v holds an image of column name at the iteration
HasImage(v, name, iteration) ==
    /\ name \in v.data.cols
    /\ name \in DOMAIN v.metadata
    /\ v.metadata[name] = "img"
    /\ iteration \in v.data.index
    /\ v.data.cell[<<iteration, name>>].t = "str"
    /\ v.data.cell[<<iteration, name>>].s \in DOMAIN v.dir.imgs

\* the cells of the grid of subplots among the axes objects P
GridCells(P) == {P[k].cell : k \in 1..Len(P)}

\* C20: show_img of a MultiLogVisualizer of n >= 1 runs lays out a grid of
\* h rows and w columns with h = floor(sqrt(n)) and w = ceil(n / h), which
\* has at least n cells; it never indexes outside the grid; every image it
\* shows is that of a run i (counted from 0) in cell (i div w, i mod w), no
\* cell holds two images, and when every run has the image, every run is
\* shown.
GridHoldsEveryRun ==
    (ret.call = "show_img" /\ Len(multi) >= 1)
    => LET n == Len(multi)
           h == Cardinality({c[1] : c \in GridCells(plt)})
           w == Cardinality({c[2] : c \in GridCells(plt)})
           Cell(i) == <<i \div w, i % w>>
           Title(i) == multi[i + 1].prefix \o ret.args[1]
       IN  /\ h * h <= n /\ n < (h + 1) * (h + 1)
           /\ (w - 1) * h < n /\ n <= w * h
           /\ GridCells(plt) = (0..(h - 1)) \X (0..(w - 1))
           /\ Len(plt) = h * w
           /\ h * w >= n
           /\ ret.out # "IndexError"
           /\ \A i \in 0..(n - 1) : Cell(i) \in GridCells(plt)
           /\ \A i, j \in 0..(n - 1) : Cell(i) = Cell(j) => i = j
           /\ \A k \in 1..Len(plt) :
                 /\ Len(plt[k].images) <= 1
                 /\ Len(plt[k].images) = 1
                      => \E i \in 0..(n - 1) :
                            /\ plt[k].cell = Cell(i)
                            /\ plt[k].images[1].title = Title(i)
           /\ (\A i \in 1..n : HasImage(multi[i], ret.args[1], ret.args[2]))
                 => /\ ret.out = "ok"
                    /\ \A i \in 0..(n - 1) : \E k \in 1..Len(plt) :
                          /\ plt[k].cell = Cell(i)
                          /\ Len(plt[k].images) = 1
                          /\ plt[k].images[1].title = Title(i)

GridHoldsEveryRunWitness ==
    /\ ret.call = "show_img"
    /\ ret.out = "ok"
    /\ Len(multi) = 5
    /\ Len(plt) = 6
    /\ \E k \in 1..Len(plt) :
          /\ plt[k].cell = <<1, 1>>
          /\ Len(plt[k].images) = 1
          /\ plt[k].images[1].title = multi[5].prefix \o <<"a">>

\* the call that ended last is an add_* call or a flush() that returned and
\* wrote data.csv
SaveCompleted ==
    /\ alive
    /\ lastOp.op \in AllAdds \cup {"flush"}
    /\ lastOp.out = "ok"
    /\ sinceWrite = 0

\* C21: after every save that wrote, by the threshold or forced, of a
\* logger created fresh or loaded, data.meta is there, its keys are the
\* columns of data.csv, and a logger constructed on the directory loads it:
\* the construction returns and leaves the directory as it is.
SavedFilesAgree ==
    SaveCompleted
    => /\ disk.csv.exists
       /\ disk.meta.exists
       /\ MetaLoad(disk.meta).ok
       /\ DOMAIN MetaLoad(disk.meta).md = read_csv(disk.csv).cols
       /\ TrainingLogger_init(disk, TRUE, <<>>, <<>>).out = "ok"
       /\ TrainingLogger_init(disk, TRUE, <<>>, <<>>).disk = disk

\* C22: an add_scalars call that fails with the assertion error of the type
\* check leaves the table, with its set of columns, and the metadata as
\* they were before the call.
AddScalarsAllOrNothing ==
    [][(lastOp'.op = "add_scalars" /\ lastOp'.out = "AssertionError")
          => /\ data' = data
             /\ data'.cols = data.cols
             /\ metadata' = metadata]_vars

\* C23: while a logger lives, every non-null cell of an image column of
\* its table holds the path <directory>/<column>-<iteration>.png, the
\* column being the resolved name, and the file of that path is in the
\* directory; and so does every non-empty field of an image column of
\* data.csv, as data.csv and data.meta are read.
ImageCellsResolve ==
    alive
    => /\ \A c \in data.cols, i \in data.index :
             (metadata[c] = "img" /\ data.cell[<<i, c>>] # Null)
             => /\ data.cell[<<i, c>>] = Str(ImgPath(c, i))
                /\ ImgPath(c, i) \in DOMAIN disk.imgs
       /\ (disk.csv.exists /\ disk.meta.exists)
             => LET tb == read_csv(disk.csv)
                    md == MetaLoad(disk.meta).md
                IN  \A c \in tb.cols, i \in tb.index :
                       (c \in DOMAIN md /\ md[c] = "img"
                          /\ tb.cell[<<i, c>>] # Null)
                       => /\ tb.cell[<<i, c>>] = Str(ImgPath(c, i))
                          /\ ImgPath(c, i) \in DOMAIN disk.imgs

\* an image logged under the prefix p at iteration 1 is in the table and in
\* data.csv, in a column whose cell of iteration 0 is null
ImageCellsResolveWitness ==
    /\ alive
    /\ lastOp.op = "add_image"
    /\ lastOp.out = "ok"
    /\ <<"p", "a">> \in data.cols
    /\ data.index = {0, 1}
    /\ data.cell[<<0, <<"p", "a">>>>] = Null
    /\ data.cell[<<1, <<"p", "a">>>>] # Null
    /\ disk.csv.exists
    /\ <<"p", "a">> \in disk.csv.header
    /\ disk.csv.field[<<(<<"1">>), (<<"p", "a">>)>>] # <<>>

====
